---- MODULE Spec2Model ----
(***************************************************************************)
(* The Bella tree-walking interpreter.  The repository holds two reviewed  *)
(* variants of the interpreter:                                            *)
(*   "part_000" : src/unnamed/part_000 (global memory, While, functions,   *)
(*                arrays, subscripts)                                      *)
(*   "bella"    : src/bella.ts lines 159-360 (memory passed as a           *)
(*                parameter; no While, functions, arrays).  Lines 1-157    *)
(*                of that file are an earlier draft of the same classes    *)
(*                that does not parse (Block's constructor is not closed)  *)
(*                and has no Program.interpret; it is not modelled.        *)
(* A behaviour picks a variant and a program (an AST), runs                *)
(* Program.interpret and then one statement handler per step.              *)
(*                                                                         *)
(* Numbers: the model carries the integers exactly, NaN, and the           *)
(* non-integral results of the Math built-ins as symbolic values           *)
(* ("inexact": a finite, non-zero, non-integral double).  Arithmetic and   *)
(* Math calls whose double the model does not know are left undefined (a   *)
(* CASE without a matching arm), so TLC stops if a program of the input    *)
(* set ever reaches one.  -0 is identified with 0.                         *)
(***************************************************************************)
EXTENDS Integers, Sequences, FiniteSets, TLC

VARIABLES variant, program, memory, stack, status, error, out, trace, last

vars == <<variant, program, memory, stack, status, error, out, trace, last>>

(***************************************************************************)
(* Values                                                                  *)
(***************************************************************************)
Num(n) == [t |-> "number", n |-> n]
NaN == [t |-> "NaN"]
Inexact(f, args) == [t |-> "inexact", f |-> f, args |-> args]
BoolV(b) == [t |-> "boolean", b |-> b]
Arr(els) == [t |-> "array", els |-> els]
Native(name) == [t |-> "function", name |-> name]
Closure(params, body) == [t |-> "closure", params |-> params, body |-> body]
Undefined == [t |-> "undefined"]
Absent == [t |-> "absent"]
\* a line of text written to the console
Text(str) == [t |-> "string", s |-> str]

\* typeof v
TypeOf(v) ==
  CASE v.t \in {"number", "NaN", "inexact"} -> "number"
    [] v.t = "boolean" -> "boolean"
    [] v.t = "function" -> "function"
    [] v.t \in {"undefined", "absent"} -> "undefined"
    [] OTHER -> "object"

\* typeof v === "number"
IsNumber(v) == TypeOf(v) = "number"

\* Array.isArray(v), for the values an expression can yield
IsArray(v) == v.t = "array"

\* JavaScript truthiness, as used by ?:, &&, ||, ! and while
Truthy(v) ==
  CASE v.t = "boolean" -> v.b
    [] v.t = "number" -> v.n # 0
    [] v.t = "NaN" -> FALSE
    [] v.t = "undefined" -> FALSE
    [] OTHER -> TRUE

\* Number("<elements joined by commas>") for an array coerced to a number
RECURSIVE ArrayToNumber(_)
ArrayToNumber(els) ==
  IF Len(els) = 0 THEN Num(0)
  ELSE IF Len(els) > 1 THEN NaN
  ELSE LET x == els[1] IN
       CASE IsNumber(x) -> x
         [] x.t = "undefined" -> Num(0)
         [] x.t = "array" -> ArrayToNumber(x.els)
         [] OTHER -> NaN

\* ToNumber of a Value
ToNumber(v) ==
  CASE IsNumber(v) -> v
    [] v.t = "boolean" -> IF v.b THEN Num(1) ELSE Num(0)
    [] v.t = "undefined" -> NaN
    [] v.t = "array" -> ArrayToNumber(v.els)
    [] OTHER -> NaN

(***************************************************************************)
(* Memory: Map<string, Value>                                              *)
(***************************************************************************)
BuiltinNames == {"sin", "cos", "hypot", "sqrt", "π", "exp", "ln"}
UserNames == {"x", "y", "a", "z", "i", "plusFour", "square"}
Names == BuiltinNames \cup UserNames

EmptyMemory == [n \in Names |-> Absent]
MemHas(mem, name) == mem[name] # Absent
\* Map.get: undefined for a missing key
MemGet(mem, name) == IF mem[name] = Absent THEN Undefined ELSE mem[name]
MemSet(mem, name, v) == [mem EXCEPT ![name] = v]

(***************************************************************************)
(* AST nodes (constructors of the classes)                                 *)
(***************************************************************************)
Numeral(value) == [k |-> "Numeral", value |-> value]
\* (the field is named bool so that no Numeral and Bool record are compared)
Bool(value) == [k |-> "Bool", bool |-> value]
Identifier(name) == [k |-> "Identifier", name |-> name]
BinaryExp(operator, left, right) ==
  [k |-> "BinaryExp", operator |-> operator, left |-> left, right |-> right]
UnaryExp(operator, operand) ==
  [k |-> "UnaryExp", operator |-> operator, operand |-> operand]
ConditionalExpression(test, consequent, alternate) ==
  [k |-> "ConditionalExpression", test |-> test, consequent |-> consequent,
   alternate |-> alternate]
Call(callee, args) == [k |-> "Call", callee |-> callee, args |-> args]
ArrayLiteral(elements) == [k |-> "ArrayLiteral", elements |-> elements]
Subscript(array, subscript) ==
  [k |-> "Subscript", array |-> array, subscript |-> subscript]

VariableDeclaration(id, initializer) ==
  [k |-> "VariableDeclaration", id |-> id, initializer |-> initializer]
Assignment(target, source) ==
  [k |-> "Assignment", target |-> target, source |-> source]
PrintStatement(expression) == [k |-> "PrintStatement", expression |-> expression]
While(expression, block) == [k |-> "While", expression |-> expression, block |-> block]
FunctionStatement(id, args, expression) ==
  [k |-> "FunctionStatement", id |-> id, args |-> args, expression |-> expression]
Block(statements) == [k |-> "Block", statements |-> statements]
Program(body) == [k |-> "Program", body |-> body]

(***************************************************************************)
(* Results of interpret(): a value or a thrown Error, with the log of the  *)
(* nodes whose interpret() was entered, in order (a node is named by its   *)
(* path of child positions from the root expression of the statement).     *)
(***************************************************************************)
Ok(v, log) == [ok |-> TRUE, v |-> v, err |-> "none", log |-> log]
Throw(err, log) == [ok |-> FALSE, v |-> Undefined, err |-> err, log |-> log]

ErrDeclared == "Variable already declared"
ErrUnknownVariable == "Unknown variable"
ErrNotNumber == "Variable is not a number"
ErrArithmetic == "Must be a number to use arithmetic operations"
ErrOperator == "Unknown operator"
ErrNotFunction == "Value is not a function"
ErrUnknownFunction == "Unknown function"
ErrNotArray == "Subscripted item must be an array"
ErrSubscript == "Subscript value must be a number"

(***************************************************************************)
(* Number operators of the host language on the modelled number domain     *)
(***************************************************************************)
Abs(n) == IF n < 0 THEN -n ELSE n

RECURSIVE Pow(_, _)
Pow(b, e) == IF e = 0 THEN 1 ELSE b * Pow(b, e - 1)

\* the integer whose square is n, or -1 (46340 is the largest root below 2^31)
IntSqrt(n) ==
  LET top == IF n > 46340 THEN 46340 ELSE n IN
  IF \E r \in 0..top : r * r = n THEN CHOOSE r \in 0..top : r * r = n ELSE -1

ArithmeticOperators == {"+", "-", "*", "/", "%", "**"}

\* left OP right for two numbers (typeof "number")
Arithmetic(operator, l, r) ==
  IF operator = "**" /\ r = Num(0) THEN Num(1)
  ELSE IF l = NaN \/ r = NaN THEN NaN
  ELSE CASE l.t = "number" /\ r.t = "number" ->
    CASE operator = "+" -> Num(l.n + r.n)
      [] operator = "-" -> Num(l.n - r.n)
      [] operator = "*" -> Num(l.n * r.n)
      [] operator = "/" /\ r.n = 0 /\ l.n = 0 -> NaN
      [] operator = "/" /\ r.n # 0 /\ Abs(l.n) % Abs(r.n) = 0 ->
           Num((IF (l.n < 0) = (r.n < 0) THEN 1 ELSE -1) * (Abs(l.n) \div Abs(r.n)))
      [] operator = "%" /\ r.n = 0 -> NaN
      [] operator = "%" /\ r.n # 0 ->
           Num((IF l.n < 0 THEN -1 ELSE 1) * (Abs(l.n) % Abs(r.n)))
      [] operator = "**" /\ r.n > 0 -> Num(Pow(l.n, r.n))

ComparisonOperators == {"<", "<=", ">=", ">"}

\* left OP right for two numbers, OP a relational operator
Comparison(operator, l, r) ==
  IF l = NaN \/ r = NaN THEN BoolV(FALSE)
  ELSE CASE l.t = "number" /\ r.t = "number" ->
    CASE operator = "<" -> BoolV(l.n < r.n)
      [] operator = "<=" -> BoolV(l.n <= r.n)
      [] operator = ">=" -> BoolV(l.n >= r.n)
      [] operator = ">" -> BoolV(l.n > r.n)

\* left === right
StrictEquals(l, r) ==
  IF l = NaN \/ r = NaN THEN FALSE
  ELSE IF IsNumber(l) /\ IsNumber(r)
       THEN CASE l.t = "number" /\ r.t = "number" -> l.n = r.n
              [] l.t = "inexact" /\ r.t = "number" -> FALSE
              [] l.t = "number" /\ r.t = "inexact" -> FALSE
       ELSE IF l.t = "boolean" /\ r.t = "boolean" THEN l.b = r.b
       ELSE FALSE

\* The Math built-ins bound by Program.interpret, on a list of numbers
\* (Math.sin(x), ..., Math.hypot(...xs)); a missing argument is undefined.
\* The result is given where the double the host computes is known: an
\* integer, NaN, or (Inexact) a finite, non-zero, non-integral double.
\*   sqrt : correctly rounded; for 0 <= n < 2^31 the root of a perfect
\*          square is exact and every other root is non-integral.
\*   exp  : 1 at 0; exactly 0 from -746 down (underflow); in (0, 1) for
\*          -745..-1; non-integral for 1..20.  From 21 up the double comes
\*          within a few hundred ulps of an integer and from 36 up it is an
\*          integer the model does not compute: no value is given.
\*   sin, cos : 0 and 1 at 0; for 0 < |n| <= 10^6 strictly between -1 and 1
\*          and non-zero.  Beyond, the double is exactly 1 or -1 at some
\*          integers: Math.cos is -1 at 165707065 and 1 at 411557987
\*          (and at their negatives); elsewhere no value is given.
\*   hypot : 0 without a non-zero argument, |x| with one; with more, the
\*          root of a non-square sum is non-integral, and the root of a
\*          square sum is exact when the largest magnitude is a power of
\*          two (the scaling by it is then exact): otherwise no value.
MathFunction(name, xs) ==
  LET x == IF Len(xs) = 0 THEN NaN ELSE xs[1] IN
  CASE name = "hypot" ->
         IF \E j \in 1..Len(xs) : xs[j] = NaN THEN NaN
         ELSE (CASE \A j \in 1..Len(xs) : xs[j].t = "number" ->
           LET RECURSIVE SumSq(_)
               SumSq(j) == IF j = 0 THEN 0 ELSE xs[j].n * xs[j].n + SumSq(j - 1)
               s == SumSq(Len(xs))
               nonzero == {j \in 1..Len(xs) : xs[j].n # 0}
               largest == IF nonzero = {} THEN 0
                          ELSE CHOOSE m \in {Abs(xs[j].n) : j \in nonzero} :
                                 \A j \in nonzero : Abs(xs[j].n) <= m
           IN CASE Cardinality(nonzero) <= 1 -> Num(largest)
                [] Cardinality(nonzero) > 1 /\ IntSqrt(s) < 0 -> Inexact("hypot", xs)
                [] /\ Cardinality(nonzero) > 1 /\ IntSqrt(s) >= 0
                   /\ \E k \in 0..30 : Pow(2, k) = largest -> Num(IntSqrt(s)))
    [] name # "hypot" /\ x = NaN -> NaN
    [] name = "sqrt" /\ x.t = "number" ->
         IF x.n < 0 THEN NaN
         ELSE IF IntSqrt(x.n) >= 0 THEN Num(IntSqrt(x.n)) ELSE Inexact("sqrt", <<x>>)
    [] name = "sin" /\ x.t = "number" /\ x.n = 0 -> Num(0)
    [] name = "cos" /\ x.t = "number" /\ x.n = 0 -> Num(1)
    [] name \in {"sin", "cos"} /\ x.t = "number" /\ x.n # 0 /\ Abs(x.n) <= 1000000 ->
         Inexact(name, <<x>>)
    [] name = "cos" /\ x.t = "number" /\ Abs(x.n) = 165707065 -> Num(-1)
    [] name = "cos" /\ x.t = "number" /\ Abs(x.n) = 411557987 -> Num(1)
    [] name = "exp" /\ x.t = "number" /\ x.n = 0 -> Num(1)
    [] name = "exp" /\ x.t = "number" /\ x.n <= -746 -> Num(0)
    [] name = "exp" /\ x.t = "number" /\ x.n # 0 /\ x.n >= -745 /\ x.n <= 20 ->
         Inexact("exp", <<x>>)

(***************************************************************************)
(* Expression.interpret()                                                  *)
(***************************************************************************)
RECURSIVE Interpret(_, _, _, _)

\* this.args.map((arg) => arg.interpret()), this.elements.map(...): the
\* expressions es[j..] in order; the first one that throws ends the map.
RECURSIVE InterpretAll(_, _, _, _, _)
InterpretAll(v, es, mem, path, j) ==
  IF j > Len(es) THEN [ok |-> TRUE, vs |-> <<>>, err |-> "none", log |-> <<>>]
  ELSE LET h == Interpret(v, es[j], mem, Append(path, j)) IN
       IF ~h.ok THEN [ok |-> FALSE, vs |-> <<>>, err |-> h.err, log |-> h.log]
       ELSE LET rest == InterpretAll(v, es, mem, path, j + 1) IN
            [ok |-> rest.ok, vs |-> <<h.v>> \o rest.vs, err |-> rest.err,
             log |-> h.log \o rest.log]

NumeralInterpret(e, path) == Ok(Num(e.value), <<path>>)

BoolInterpret(e, path) == Ok(BoolV(e.bool), <<path>>)

IdentifierInterpret(e, mem, path) ==
  LET value == MemGet(mem, e.name) IN
  IF value = Undefined THEN Throw(ErrUnknownVariable, <<path>>)
  ELSE IF ~IsNumber(value) THEN Throw(ErrNotNumber, <<path>>)
  ELSE Ok(value, <<path>>)

\* src/unnamed/part_000: both operands are interpreted first, then typed
BinaryExpInterpretEager(e, mem, path) ==
  LET left == Interpret("part_000", e.left, mem, Append(path, 1))
      right == Interpret("part_000", e.right, mem, Append(path, 2))
  IN
  IF ~left.ok THEN Throw(left.err, <<path>> \o left.log)
  ELSE IF ~right.ok THEN Throw(right.err, <<path>> \o left.log \o right.log)
  ELSE LET log == <<path>> \o left.log \o right.log IN
       IF ~IsNumber(left.v) \/ ~IsNumber(right.v) THEN Throw(ErrArithmetic, log)
       ELSE IF e.operator \in ArithmeticOperators
            THEN Ok(Arithmetic(e.operator, left.v, right.v), log)
       ELSE IF e.operator \in ComparisonOperators
            THEN Ok(Comparison(e.operator, left.v, right.v), log)
       ELSE IF e.operator = "==" THEN Ok(BoolV(StrictEquals(left.v, right.v)), log)
       ELSE IF e.operator = "!=" THEN Ok(BoolV(~StrictEquals(left.v, right.v)), log)
       ELSE IF e.operator = "&&"
            THEN Ok(IF Truthy(left.v) THEN right.v ELSE left.v, log)
       ELSE IF e.operator = "||"
            THEN Ok(IF Truthy(left.v) THEN left.v ELSE right.v, log)
       ELSE Throw(ErrOperator, log)

\* src/bella.ts: one case per operator, operands interpreted inside the case
BinaryExpInterpretSwitch(e, mem, path) ==
  LET left == Interpret("bella", e.left, mem, Append(path, 1))
      right == Interpret("bella", e.right, mem, Append(path, 2))
      both == <<path>> \o left.log \o right.log
  IN
  IF e.operator \notin
       ArithmeticOperators \cup ComparisonOperators \cup {"==", "!=", "&&", "||"}
  THEN Throw(ErrOperator, <<path>>)
  ELSE IF ~left.ok THEN Throw(left.err, <<path>> \o left.log)
  ELSE IF e.operator = "&&"
       THEN IF ~Truthy(left.v) THEN Ok(left.v, <<path>> \o left.log)
            ELSE IF ~right.ok THEN Throw(right.err, both) ELSE Ok(right.v, both)
  ELSE IF e.operator = "||"
       THEN IF Truthy(left.v) THEN Ok(left.v, <<path>> \o left.log)
            ELSE IF ~right.ok THEN Throw(right.err, both) ELSE Ok(right.v, both)
  ELSE IF ~right.ok THEN Throw(right.err, both)
  ELSE IF e.operator \in ArithmeticOperators
       THEN Ok(Arithmetic(e.operator, ToNumber(left.v), ToNumber(right.v)), both)
  ELSE IF e.operator \in ComparisonOperators
       THEN Ok(Comparison(e.operator, ToNumber(left.v), ToNumber(right.v)), both)
  ELSE IF e.operator = "==" THEN Ok(BoolV(StrictEquals(left.v, right.v)), both)
  ELSE Ok(BoolV(~StrictEquals(left.v, right.v)), both)

BinaryExpInterpret(v, e, mem, path) ==
  IF v = "part_000" THEN BinaryExpInterpretEager(e, mem, path)
  ELSE BinaryExpInterpretSwitch(e, mem, path)

UnaryExpInterpret(v, e, mem, path) ==
  LET operand == Interpret(v, e.operand, mem, Append(path, 1))
      log == <<path>> \o operand.log
  IN
  IF e.operator \notin {"-", "!"} THEN Throw(ErrOperator, <<path>>)
  ELSE IF ~operand.ok THEN Throw(operand.err, log)
  ELSE IF e.operator = "-"
       THEN Ok(Arithmetic("-", Num(0), ToNumber(operand.v)), log)
  ELSE Ok(BoolV(~Truthy(operand.v)), log)

\* (mutation) both branches interpreted before the test selects one
ConditionalExpressionInterpretEager(v, e, mem, path) ==
  LET test == Interpret(v, e.test, mem, Append(path, 1))
      consequent == Interpret(v, e.consequent, mem, Append(path, 2))
      alternate == Interpret(v, e.alternate, mem, Append(path, 3))
  IN
  IF ~test.ok THEN Throw(test.err, <<path>> \o test.log)
  ELSE IF ~consequent.ok
       THEN Throw(consequent.err, <<path>> \o test.log \o consequent.log)
  ELSE IF ~alternate.ok
       THEN Throw(alternate.err,
                  <<path>> \o test.log \o consequent.log \o alternate.log)
  ELSE LET branch == IF Truthy(test.v) THEN consequent ELSE alternate
       IN [branch EXCEPT !.log =
             <<path>> \o test.log \o consequent.log \o alternate.log]

\* test ? consequent : alternate  (src/bella.ts names the same three
\* positions exp_true, condition, exp_false and tests the first)
ConditionalExpressionInterpret(v, e, mem, path) ==
  LET test == Interpret(v, e.test, mem, Append(path, 1)) IN
  IF ~test.ok THEN Throw(test.err, <<path>> \o test.log)
  ELSE LET branch == IF Truthy(test.v)
                     THEN Interpret(v, e.consequent, mem, Append(path, 2))
                     ELSE Interpret(v, e.alternate, mem, Append(path, 3))
       IN [branch EXCEPT !.log = <<path>> \o test.log \o branch.log]

CallInterpret(v, e, mem, path) ==
  LET functionValue == MemGet(mem, e.callee.name) IN
  IF functionValue.t # "function"
  THEN Throw(IF v = "part_000" THEN ErrNotFunction ELSE ErrUnknownFunction, <<path>>)
  ELSE LET args == InterpretAll(v, e.args, mem, path, 1)
           log == <<path>> \o args.log
       IN
       IF ~args.ok THEN Throw(args.err, log)
       ELSE IF v = "part_000"
            \* functionValue(array): the array is the single argument
            THEN Ok(MathFunction(functionValue.name, <<ArrayToNumber(args.vs)>>), log)
            \* func(...array)
            ELSE Ok(MathFunction(functionValue.name,
                                 [j \in 1..Len(args.vs) |-> ToNumber(args.vs[j])]), log)

ArrayLiteralInterpret(v, e, mem, path) ==
  LET elements == InterpretAll(v, e.elements, mem, path, 1)
      log == <<path>> \o elements.log
  IN IF ~elements.ok THEN Throw(elements.err, log) ELSE Ok(Arr(elements.vs), log)

SubscriptInterpret(v, e, mem, path) ==
  LET arrayValue == Interpret(v, e.array, mem, Append(path, 1))
      subscriptValue == Interpret(v, e.subscript, mem, Append(path, 2))
  IN
  IF ~arrayValue.ok THEN Throw(arrayValue.err, <<path>> \o arrayValue.log)
  ELSE LET log == <<path>> \o arrayValue.log \o subscriptValue.log IN
       IF ~subscriptValue.ok THEN Throw(subscriptValue.err, log)
       ELSE IF ~IsArray(arrayValue.v) THEN Throw(ErrNotArray, log)
       ELSE IF ~IsNumber(subscriptValue.v) THEN Throw(ErrSubscript, log)
       ELSE LET els == arrayValue.v.els
                s == subscriptValue.v
            IN IF s.t = "number" /\ s.n >= 0 /\ s.n < Len(els)
               THEN Ok(els[s.n + 1], log)
               ELSE Ok(Undefined, log)

Interpret(v, e, mem, path) ==
  CASE e.k = "Numeral" -> NumeralInterpret(e, path)
    [] e.k = "Bool" -> BoolInterpret(e, path)
    [] e.k = "Identifier" -> IdentifierInterpret(e, mem, path)
    [] e.k = "BinaryExp" -> BinaryExpInterpret(v, e, mem, path)
    [] e.k = "UnaryExp" -> UnaryExpInterpret(v, e, mem, path)
    [] e.k = "ConditionalExpression" -> ConditionalExpressionInterpret(v, e, mem, path)
    [] e.k = "Call" -> CallInterpret(v, e, mem, path)
    [] e.k = "ArrayLiteral" -> ArrayLiteralInterpret(v, e, mem, path)
    [] e.k = "Subscript" -> SubscriptInterpret(v, e, mem, path)

(***************************************************************************)
(* Statement.interpret(): the value thrown or returned (res), the memory   *)
(* afterwards (mem) and what console.log received (printed)                *)
(***************************************************************************)
Done(res, mem, printed) == [res |-> res, mem |-> mem, printed |-> printed]

RECURSIVE SubExpr(_, _)
\* the node at path p below expression e
SubExpr(e, p) ==
  IF p = <<>> THEN e
  ELSE LET c == p[1]
           child ==
             CASE e.k = "BinaryExp" -> IF c = 1 THEN e.left ELSE e.right
               [] e.k = "UnaryExp" -> e.operand
               [] e.k = "ConditionalExpression" ->
                    IF c = 1 THEN e.test ELSE IF c = 2 THEN e.consequent ELSE e.alternate
               [] e.k = "Call" -> e.args[c]
               [] e.k = "ArrayLiteral" -> e.elements[c]
               [] e.k = "Subscript" -> IF c = 1 THEN e.array ELSE e.subscript
       IN SubExpr(child, Tail(p))

RECURSIVE IdentifierLog(_, _, _, _)
\* src/bella.ts: Identifier.interpret writes typeof value to the console
\* every time it is entered; log[j..] are the nodes entered, in order
IdentifierLog(e, log, mem, j) ==
  IF j > Len(log) THEN <<>>
  ELSE LET node == SubExpr(e, log[j]) IN
       (IF node.k = "Identifier" THEN <<Text(TypeOf(MemGet(mem, node.name)))>> ELSE <<>>)
       \o IdentifierLog(e, log, mem, j + 1)

\* what interpreting expression e with outcome r wrote to the console
Console(v, e, r, mem) ==
  IF v = "bella" THEN IdentifierLog(e, r.log, mem, 1) ELSE <<>>

VariableDeclarationInterpret(v, s, mem) ==
  IF MemHas(mem, s.id.name) THEN Done(Throw(ErrDeclared, <<>>), mem, <<>>)
  ELSE LET r == Interpret(v, s.initializer, mem, <<>>) IN
       IF ~r.ok THEN Done(r, mem, Console(v, s.initializer, r, mem))
       ELSE Done(r, MemSet(mem, s.id.name, r.v), Console(v, s.initializer, r, mem))

\* (mutation) no check that the target is bound
AssignmentInterpretUnchecked(v, s, mem) ==
  LET r == Interpret(v, s.source, mem, <<>>) IN
  IF ~r.ok THEN Done(r, mem, Console(v, s.source, r, mem))
  ELSE Done(r, MemSet(mem, s.target.name, r.v), Console(v, s.source, r, mem))

AssignmentInterpret(v, s, mem) ==
  IF ~MemHas(mem, s.target.name) THEN Done(Throw(ErrUnknownVariable, <<>>), mem, <<>>)
  ELSE LET r == Interpret(v, s.source, mem, <<>>) IN
       IF ~r.ok THEN Done(r, mem, Console(v, s.source, r, mem))
       ELSE Done(r, MemSet(mem, s.target.name, r.v), Console(v, s.source, r, mem))

PrintStatementInterpret(v, s, mem) ==
  LET r == Interpret(v, s.expression, mem, <<>>) IN
  Done(r, mem, Console(v, s.expression, r, mem) \o (IF r.ok THEN <<r.v>> ELSE <<>>))

FunctionStatementInterpret(v, s, mem) ==
  Done(Ok(Undefined, <<>>), MemSet(mem, s.id.name, Closure(s.args, s.expression)),
       <<>>)

\* an expression placed in a Block's statement list (the Call of sample)
ExpressionStatementInterpret(v, s, mem) ==
  LET r == Interpret(v, s, mem, <<>>) IN Done(r, mem, Console(v, s, r, mem))

\* Program.interpret: the built-ins
Builtins(mem) ==
  [n \in Names |->
     CASE n \in {"sin", "cos", "hypot", "sqrt", "exp"} -> Native(n)
       [] n = "π" -> Inexact("PI", <<>>)
       [] n = "ln" -> Inexact("LN10", <<>>)
       [] OTHER -> mem[n]]

(***************************************************************************)
(* Control: the stack of Block.interpret / While.interpret activations     *)
(***************************************************************************)
BlockFrame(statements, path) ==
  [k |-> "Block", statements |-> statements, pc |-> 1, path |-> path]
WhileFrame(s, path) == [k |-> "While", s |-> s, path |-> path]

\* Block.interpret's loop after statement.interpret() has returned:
\* part_000 goes on to the next statement; bella.ts returns from the loop
BlockAfterStatement(v, frame) ==
  IF v = "part_000" THEN [frame EXCEPT !.pc = frame.pc + 1]
  ELSE [frame EXCEPT !.pc = Len(frame.statements) + 1]

Top == stack[Len(stack)]
Pop(stk) == SubSeq(stk, 1, Len(stk) - 1)
ReplaceTop(stk, frame) == [stk EXCEPT ![Len(stk)] = frame]

AtStatement ==
  /\ status = "running"
  /\ stack # <<>>
  /\ Top.k = "Block"
  /\ Top.pc <= Len(Top.statements)

Current == Top.statements[Top.pc]
CurrentPath == Append(Top.path, Top.pc)

Event(a, path, ok, truthy) == [a |-> a, path |-> path, ok |-> ok, truthy |-> truthy]
NoLast == [k |-> "none"]
Last(k, path, s, x, pre) ==
  [k |-> k, path |-> path, s |-> s, res |-> x.res, pre |-> pre]

\* a statement's interpret() has run with outcome x
Finish(k, x) ==
  /\ memory' = x.mem
  /\ out' = out \o x.printed
  /\ trace' = Append(trace, Event("stmt", CurrentPath, x.res.ok, FALSE))
  /\ last' = Last(k, CurrentPath, Current, x, memory)
  /\ IF x.res.ok
     THEN /\ stack' = ReplaceTop(stack, BlockAfterStatement(variant, Top))
          /\ UNCHANGED <<status, error>>
     ELSE /\ stack' = <<>>
          /\ status' = "failed"
          /\ error' = x.res.err
  /\ UNCHANGED <<variant, program>>

ExpressionKinds ==
  {"Numeral", "Bool", "Identifier", "BinaryExp", "UnaryExp", "ConditionalExpression",
   "Call", "ArrayLiteral", "Subscript"}

ProgramInterpret ==
  /\ status = "new"
  /\ memory' = Builtins(memory)
  /\ stack' = <<BlockFrame(program.body.statements, <<>>)>>
  /\ status' = "running"
  /\ UNCHANGED <<variant, program, error, out, trace, last>>

VariableDeclarationStep ==
  /\ AtStatement /\ Current.k = "VariableDeclaration"
  /\ Finish("VariableDeclaration", VariableDeclarationInterpret(variant, Current, memory))

AssignmentStep ==
  /\ AtStatement /\ Current.k = "Assignment"
  /\ Finish("Assignment", AssignmentInterpret(variant, Current, memory))

PrintStatementStep ==
  /\ AtStatement /\ Current.k = "PrintStatement"
  /\ Finish("PrintStatement", PrintStatementInterpret(variant, Current, memory))

FunctionStatementStep ==
  /\ AtStatement /\ Current.k = "FunctionStatement"
  /\ Finish("FunctionStatement", FunctionStatementInterpret(variant, Current, memory))

ExpressionStatementStep ==
  /\ AtStatement /\ Current.k \in ExpressionKinds
  /\ Finish("Expression", ExpressionStatementInterpret(variant, Current, memory))

\* Block.interpret calls While.interpret
WhileInterpret ==
  /\ AtStatement /\ Current.k = "While"
  /\ stack' = Append(stack, WhileFrame(Current, CurrentPath))
  /\ trace' = Append(trace, Event("enter", CurrentPath, TRUE, FALSE))
  /\ UNCHANGED <<variant, program, memory, status, error, out, last>>

\* (mutation) an if instead of a while: the guard is not interpreted
\* again after the body
WhileTestOnce ==
  /\ status = "running" /\ stack # <<>> /\ Top.k = "While"
  /\ LET r == Interpret(variant, Top.s.expression, memory, <<>>)
         left == ReplaceTop(Pop(stack),
                            BlockAfterStatement(variant, stack[Len(stack) - 1]))
     IN /\ trace' = Append(trace, Event("test", Top.path, r.ok, r.ok /\ Truthy(r.v)))
        /\ last' = [k |-> "While", path |-> Top.path, s |-> Top.s, res |-> r,
                    pre |-> memory]
        /\ IF ~r.ok
           THEN stack' = <<>> /\ status' = "failed" /\ error' = r.err
           ELSE /\ UNCHANGED <<status, error>>
                /\ IF Truthy(r.v)
                   THEN stack' = Append(left, BlockFrame(Top.s.block.statements, Top.path))
                   ELSE stack' = left
  /\ UNCHANGED <<variant, program, memory, out>>

\* while (this.expression.interpret()) { this.block.interpret(); }
WhileTest ==
  /\ status = "running" /\ stack # <<>> /\ Top.k = "While"
  /\ LET r == Interpret(variant, Top.s.expression, memory, <<>>)
     IN /\ trace' = Append(trace, Event("test", Top.path, r.ok, r.ok /\ Truthy(r.v)))
        /\ last' = [k |-> "While", path |-> Top.path, s |-> Top.s, res |-> r,
                    pre |-> memory]
        /\ IF ~r.ok
           THEN stack' = <<>> /\ status' = "failed" /\ error' = r.err
           ELSE /\ UNCHANGED <<status, error>>
                /\ IF Truthy(r.v)
                   THEN stack' = Append(stack, BlockFrame(Top.s.block.statements, Top.path))
                   ELSE stack' = ReplaceTop(Pop(stack),
                                   BlockAfterStatement(variant, stack[Len(stack) - 1]))
  /\ UNCHANGED <<variant, program, memory, out>>

\* the for loop of Block.interpret is over: the block returns to its caller
BlockReturn ==
  /\ status = "running" /\ stack # <<>>
  /\ Top.k = "Block" /\ Top.pc > Len(Top.statements)
  /\ stack' = Pop(stack)
  /\ status' = IF Len(stack) = 1 THEN "done" ELSE status
  /\ UNCHANGED <<variant, program, memory, error, out, trace, last>>

(***************************************************************************)
(* Inputs: the programs handed to interpret()                              *)
(***************************************************************************)
MaxStmts == 2
MaxN == 2

x == Identifier("x")
y == Identifier("y")
z == Identifier("z")

\* while (y < n) { y = y + 1 }
CountTo(n) ==
  While(BinaryExp("<", y, Numeral(n)),
        Block(<<Assignment(y, BinaryExp("+", y, Numeral(1)))>>))

\* expressions every variant has classes for
CommonExpressions ==
  { BinaryExp("*", Numeral(9), x),
    Call(Identifier("sqrt"), <<Numeral(2)>>),
    Call(Identifier("sqrt"), <<Numeral(1), Numeral(4)>>),
    Call(Identifier("sqrt"), <<>>),
    Call(Identifier("hypot"), <<Numeral(3), Numeral(4)>>),
    Call(Identifier("ln"), <<Numeral(1)>>),
    ConditionalExpression(BinaryExp("<", Numeral(3), Numeral(2)), Numeral(1), Numeral(0)),
    ConditionalExpression(Bool(TRUE), Numeral(1), z),
    ConditionalExpression(Bool(FALSE), z, Numeral(0)),
    ConditionalExpression(x, Bool(TRUE), UnaryExp("!", Bool(TRUE))),
    ConditionalExpression(z, Numeral(1), Numeral(0)),
    BinaryExp("&&", Bool(FALSE), z),
    BinaryExp("||", Bool(TRUE), z),
    BinaryExp("&&", Bool(TRUE), Bool(FALSE)),
    BinaryExp("||", Numeral(0), x),
    BinaryExp("^", Numeral(1), Numeral(1)),
    y }

CommonStatements ==
  { VariableDeclaration(x, Numeral(100)),
    VariableDeclaration(x, Numeral(0)),
    VariableDeclaration(y, Numeral(0)),
    VariableDeclaration(Identifier("sqrt"), Numeral(1)),
    Assignment(x, UnaryExp("-", Numeral(20))),
    Assignment(y, Bool(TRUE)),
    Assignment(Identifier("sin"), Numeral(5)) }
  \cup { PrintStatement(e) : e \in CommonExpressions }

\* statements of the classes only src/unnamed/part_000 has
Part000Statements ==
  { CountTo(n) : n \in 0..MaxN }
  \cup
  { VariableDeclaration(Identifier("a"), ArrayLiteral(<<Numeral(1), Numeral(2), Numeral(3)>>)),
    PrintStatement(Subscript(Identifier("a"), Numeral(1))),
    PrintStatement(Subscript(ArrayLiteral(<<Numeral(1), Numeral(2), Numeral(3)>>), Numeral(1))),
    PrintStatement(Subscript(ArrayLiteral(<<Numeral(1), Numeral(2), Numeral(3)>>), Numeral(5))),
    PrintStatement(Subscript(ArrayLiteral(<<Numeral(1)>>), UnaryExp("-", Numeral(1)))),
    FunctionStatement(Identifier("square"), <<Identifier("i")>>,
                      BinaryExp("*", Identifier("i"), Identifier("i"))),
    FunctionStatement(x, <<>>, Numeral(1)),
    FunctionStatement(Identifier("sqrt"), <<Identifier("i")>>, Identifier("i")),
    PrintStatement(Call(Identifier("square"), <<Numeral(5)>>)),
    PrintStatement(Call(Identifier("square"), <<Numeral(1), Numeral(2)>>)) }

Statements(v) ==
  IF v = "part_000" THEN CommonStatements \cup Part000Statements ELSE CommonStatements

\* const sample of src/unnamed/part_000
SamplePart000 ==
  <<VariableDeclaration(x, Numeral(100)),
    Assignment(x, UnaryExp("-", Numeral(20))),
    PrintStatement(BinaryExp("*", Numeral(9), x)),
    PrintStatement(Call(Identifier("sqrt"), <<Numeral(2)>>)),
    PrintStatement(ConditionalExpression(BinaryExp("<", Numeral(3), Numeral(2)),
                                         Numeral(1), Numeral(0))),
    VariableDeclaration(y, Numeral(0)),
    While(BinaryExp(">", Numeral(10), y),
          Block(<<Assignment(y, BinaryExp("+", Numeral(1), y))>>)),
    PrintStatement(y),
    VariableDeclaration(Identifier("i"), Numeral(0)),
    FunctionStatement(Identifier("plusFour"), <<Identifier("i")>>,
                      BinaryExp("+", z, Numeral(4))),
    Call(Identifier("plusFour"), <<Identifier("i")>>),
    PrintStatement(Identifier("i"))>>

\* const sample of src/bella.ts
SampleBella ==
  <<PrintStatement(Numeral(5)),
    PrintStatement(Call(Identifier("sqrt"), <<Numeral(2)>>))>>

\* scenarios longer than MaxStmts
Scenarios(v) ==
  IF v = "part_000"
  THEN { SamplePart000,
         SubSeq(SamplePart000, 6, 8),
         <<VariableDeclaration(y, Numeral(0)), CountTo(MaxN + 1), PrintStatement(y)>>,
         <<VariableDeclaration(x, Numeral(0)), VariableDeclaration(y, Numeral(0)),
           While(BinaryExp("<", x, Numeral(2)),
                 Block(<<Assignment(y, Numeral(0)), CountTo(MaxN),
                         Assignment(x, BinaryExp("+", x, Numeral(1)))>>)),
           PrintStatement(x)>>,
         <<VariableDeclaration(x, Numeral(0)),
           While(x, Block(<<>>)),
           While(Bool(TRUE), Block(<<PrintStatement(x), Assignment(x, z)>>))>> }
  ELSE { SampleBella, SubSeq(SamplePart000, 1, 3) }

Variants == {"part_000", "bella"}

Programs(v) ==
  { Program(Block(ss)) :
      ss \in Scenarios(v) \cup UNION { [1..n -> Statements(v)] : n \in 0..MaxStmts } }

Init ==
  /\ variant \in Variants
  /\ program \in Programs(variant)
  /\ memory = EmptyMemory
  /\ stack = <<>>
  /\ status = "new"
  /\ error = "none"
  /\ out = <<>>
  /\ trace = <<>>
  /\ last = NoLast

Next ==
  \/ ProgramInterpret
  \/ VariableDeclarationStep
  \/ AssignmentStep
  \/ PrintStatementStep
  \/ FunctionStatementStep
  \/ ExpressionStatementStep
  \/ WhileInterpret
  \/ WhileTest
  \/ BlockReturn

Spec == Init /\ [][Next]_vars

(***************************************************************************)
(* Vocabulary of the properties                                            *)
(***************************************************************************)
IsPrefix(p, q) == Len(p) <= Len(q) /\ SubSeq(q, 1, Len(p)) = p

\* the last step interpreted the expression of a statement (or loop guard)
Evaluated ==
  /\ last.k \in {"VariableDeclaration", "Assignment", "PrintStatement", "While",
                 "Expression"}
  /\ last.res.log # <<>>

RootExpr ==
  CASE last.k = "VariableDeclaration" -> last.s.initializer
    [] last.k = "Assignment" -> last.s.source
    [] last.k = "PrintStatement" -> last.s.expression
    [] last.k = "While" -> last.s.expression
    [] last.k = "Expression" -> last.s

\* how often interpret() of the node at path p was entered in the last step
Entered(p) == Cardinality({j \in DOMAIN last.res.log : last.res.log[j] = p})
\* whether any node at or below path p was interpreted in the last step
Touched(p) == \E j \in DOMAIN last.res.log : IsPrefix(p, last.res.log[j])

SameOutcome(r1, r2) == r1.ok = r2.ok /\ r1.v = r2.v /\ r1.err = r2.err

(***************************************************************************)
(* C1  && and || short-circuit                                             *)
(***************************************************************************)
LogicalDetermined ==
  /\ Evaluated
  /\ RootExpr.k = "BinaryExp"
  /\ RootExpr.operator \in {"&&", "||"}
  /\ LET l == Interpret(variant, RootExpr.left, last.pre, <<1>>) IN
     /\ l.ok
     /\ l.v = BoolV(RootExpr.operator = "||")

\* C1: when the left operand of && is false (of || is true), the right
\* operand is not interpreted and the expression yields the left operand's
\* Boolean value, even if the right operand would fail.
C1_ShortCircuit ==
  LogicalDetermined =>
    /\ ~Touched(<<2>>)
    /\ last.res.ok
    /\ last.res.v = BoolV(RootExpr.operator = "||")

(***************************************************************************)
(* C2  the conditional expression is lazy                                  *)
(***************************************************************************)
ConditionalEvaluated == Evaluated /\ RootExpr.k = "ConditionalExpression"

\* C2: test is interpreted first and exactly once; then exactly the selected
\* branch is interpreted, and its outcome is the outcome of the expression;
\* the other branch is not interpreted (so its failure cannot occur).
C2_ConditionalLazy ==
  ConditionalEvaluated =>
    LET e == RootExpr
        t == Interpret(variant, e.test, last.pre, <<1>>)
    IN
    /\ Len(last.res.log) >= 2
    /\ last.res.log[1] = <<>>
    /\ last.res.log[2] = <<1>>
    /\ Entered(<<>>) = 1
    /\ Entered(<<1>>) = 1
    /\ ~t.ok => /\ ~Touched(<<2>>) /\ ~Touched(<<3>>)
                /\ ~last.res.ok /\ last.res.err = t.err
    /\ (t.ok /\ Truthy(t.v)) =>
         /\ Entered(<<2>>) = 1
         /\ ~Touched(<<3>>)
         /\ SameOutcome(last.res, Interpret(variant, e.consequent, last.pre, <<2>>))
    /\ (t.ok /\ ~Truthy(t.v)) =>
         /\ Entered(<<3>>) = 1
         /\ ~Touched(<<2>>)
         /\ SameOutcome(last.res, Interpret(variant, e.alternate, last.pre, <<3>>))

\* a conditional whose unselected branch would fail has yielded a value
C2_Witness ==
  /\ ConditionalEvaluated
  /\ last.res.ok
  /\ \/ /\ Truthy(Interpret(variant, RootExpr.test, last.pre, <<1>>).v)
        /\ ~Interpret(variant, RootExpr.alternate, last.pre, <<3>>).ok
     \/ /\ ~Truthy(Interpret(variant, RootExpr.test, last.pre, <<1>>).v)
        /\ ~Interpret(variant, RootExpr.consequent, last.pre, <<2>>).ok

(***************************************************************************)
(* C3  redeclaration                                                       *)
(***************************************************************************)
\* C3: a declaration statement (variable or function) for a name that is
\* already bound fails with the redeclaration error and leaves the binding
\* of that name as it was.
C3_Redeclaration ==
  (/\ last.k \in {"VariableDeclaration", "FunctionStatement"}
   /\ MemHas(last.pre, last.s.id.name)) =>
    /\ ~last.res.ok
    /\ last.res.err = ErrDeclared
    /\ status = "failed"
    /\ memory[last.s.id.name] = last.pre[last.s.id.name]

(***************************************************************************)
(* C4  assignment                                                          *)
(***************************************************************************)
Scenario1 ==
  <<VariableDeclaration(x, Numeral(100)),
    Assignment(x, UnaryExp("-", Numeral(20))),
    PrintStatement(BinaryExp("*", Numeral(9), x))>>

\* C4: an Assignment to an unbound name fails with the unbound-variable
\* error and leaves the memory as it was; to a bound name it replaces that
\* name's value by the value of source and changes no other binding, and a
\* lookup of the name then yields that value (x := 100; x = -20; 9 * x is
\* -180).
C4_Assignment ==
  /\ last.k = "Assignment" =>
       LET name == last.s.target.name IN
       IF ~MemHas(last.pre, name)
       THEN /\ ~last.res.ok
            /\ status = "failed"
            /\ error = ErrUnknownVariable
            /\ memory = last.pre
       ELSE LET r == Interpret(variant, last.s.source, last.pre, <<>>) IN
            /\ SameOutcome(last.res, r)
            /\ r.ok => /\ memory = [last.pre EXCEPT ![name] = r.v]
                       /\ MemGet(memory, name) = r.v
                       /\ IsNumber(r.v) =>
                            SameOutcome(IdentifierInterpret(last.s.target, memory, <<>>),
                                        Ok(r.v, <<>>))
            /\ ~r.ok => memory = last.pre /\ status = "failed" /\ error = r.err
  /\ (/\ variant = "part_000"
      /\ IsPrefix(Scenario1, program.body.statements)
      /\ Len(trace) >= 3) => out[1] = Num(-180)

\* the scenario has assigned to the bound x and printed 9 * x
C4_Witness ==
  /\ variant = "part_000"
  /\ IsPrefix(Scenario1, program.body.statements)
  /\ Len(out) >= 1 /\ out[1] = Num(-180)
  /\ last.k = "PrintStatement"

(***************************************************************************)
(* C5  calling a user-defined function                                     *)
(***************************************************************************)
CallEvaluated == Evaluated /\ RootExpr.k = "Call"

\* C5: a Call of a name bound by a FunctionStatement, with as many arguments
\* as the function has parameters, does not fail as not-callable and yields
\* the body's value under the parameter bindings (square(5) is 25).
C5_UserFunctionCall ==
  (/\ CallEvaluated
   /\ last.pre[RootExpr.callee.name].t = "closure"
   /\ Len(RootExpr.args) = Len(last.pre[RootExpr.callee.name].params)) =>
    /\ last.res.err # ErrNotFunction
    /\ RootExpr = Call(Identifier("square"), <<Numeral(5)>>) =>
         last.res.ok /\ last.res.v = Num(25)

(***************************************************************************)
(* C6  arity                                                               *)
(***************************************************************************)
\* the fixed parameter count of the Math functions (Function.length)
NativeArity(name) == IF name = "hypot" THEN 2 ELSE 1

ErrArityMismatch == "Arity mismatch"

\* C6: a Call whose number of arguments differs from the callee's parameter
\* count fails with the arity-mismatch error and yields no value.
C6_ArityMismatch ==
  (/\ CallEvaluated
   /\ LET f == last.pre[RootExpr.callee.name] IN
      \/ f.t = "function" /\ Len(RootExpr.args) # NativeArity(f.name)
      \/ f.t = "closure" /\ Len(RootExpr.args) # Len(f.params)) =>
    /\ ~last.res.ok
    /\ last.res.err = ErrArityMismatch

(***************************************************************************)
(* C7  subscript                                                           *)
(***************************************************************************)
ErrIndexOutOfRange == "Index out of range"

\* C7: for a variable bound to an array of length n and an integral index
\* i, Subscript yields the element at i when 0 <= i < n and fails with the
\* index-out-of-range error otherwise; it never yields a non-Value.
C7_Subscript ==
  (/\ Evaluated
   /\ RootExpr.k = "Subscript"
   /\ RootExpr.array.k = "Identifier"
   /\ last.pre[RootExpr.array.name].t = "array"
   /\ LET j == Interpret(variant, RootExpr.subscript, last.pre, <<2>>)
      IN j.ok /\ j.v.t = "number") =>
    LET els == last.pre[RootExpr.array.name].els
        j == Interpret(variant, RootExpr.subscript, last.pre, <<2>>).v.n
    IN IF 0 <= j /\ j < Len(els)
       THEN last.res.ok /\ last.res.v = els[j + 1]
       ELSE ~last.res.ok /\ last.res.err = ErrIndexOutOfRange

(***************************************************************************)
(* C8  the built-ins                                                       *)
(***************************************************************************)
Seeded == status = "running" /\ trace = <<>>

\* C8: once the driver has seeded the memory and before the first statement
\* runs, sin, cos, hypot, sqrt, exp and ln are bound to functions and π to a
\* Number; a Call of ln with one Number does not fail as not-callable.
C8_Builtins ==
  Seeded =>
    /\ \A n \in {"sin", "cos", "hypot", "sqrt", "exp", "ln"} : memory[n].t = "function"
    /\ IsNumber(memory["π"])
    /\ CallInterpret(variant, Call(Identifier("ln"), <<Numeral(1)>>), memory, <<>>).err
         \notin {ErrNotFunction, ErrUnknownFunction}

(***************************************************************************)
(* C9  Block                                                               *)
(***************************************************************************)
IsTopLevel(ev) == Len(ev.path) = 1 /\ ev.a \in {"stmt", "enter"}
TopLevelEvents == SelectSeq(trace, IsTopLevel)

\* C9: a Block of k statements none of which fails runs all k statements
\* once each, in list order; it does not stop after its first statement.
C9_BlockRunsAll ==
  status = "done" =>
    /\ Len(TopLevelEvents) = Len(program.body.statements)
    /\ \A j \in DOMAIN TopLevelEvents : TopLevelEvents[j].path = <<j>>

(***************************************************************************)
(* C10  While                                                              *)
(***************************************************************************)
RECURSIVE StmtAt(_, _)
\* the statement at path p below the statement list stmts
StmtAt(stmts, p) ==
  IF Len(p) = 1 THEN stmts[p[1]]
  ELSE StmtAt(stmts[p[1]].block.statements, Tail(p))

\* the statement list of the block at path q (the program body, or the body
\* of the While at q)
BlockAt(q) ==
  IF q = <<>> THEN program.body.statements
  ELSE StmtAt(program.body.statements, q).block.statements

Front(p) == SubSeq(p, 1, Len(p) - 1)

IsTest(ev, p) == ev.a = "test" /\ ev.path = p
Starts(ev, p) == ev.a \in {"stmt", "enter"} /\ ev.path = p

\* what runs after the statement at path p has completed: the following
\* statement of its block, or, at the end of a loop body, the loop's guard
Follows(p, nxt) ==
  IF p[Len(p)] < Len(BlockAt(Front(p)))
  THEN Starts(nxt, Append(Front(p), p[Len(p)] + 1))
  ELSE Len(p) > 1 /\ IsTest(nxt, Front(p))

TruthyTests(p) == Cardinality({j \in DOMAIN trace : IsTest(trace[j], p) /\ trace[j].truthy})
Tests(p) == Cardinality({j \in DOMAIN trace : IsTest(trace[j], p)})
Runs(p) == Cardinality({j \in DOMAIN trace : Starts(trace[j], p)})

\* y := 0; while (y < n) { y = y + 1 }; ...
IsCounter(n) ==
  IsPrefix(<<VariableDeclaration(y, Numeral(0)), CountTo(n)>>, program.body.statements)

\* the guard of the While at path p has just yielded false
LoopLeft(p) ==
  /\ last.k = "While" /\ last.path = p
  /\ last.res.ok /\ ~Truthy(last.res.v)
  /\ trace # <<>> /\ IsTest(trace[Len(trace)], p)

\* C10: the guard is interpreted on entry and again after every run of the
\* body; the body runs once for each guard that yields true; at the first
\* guard that yields false the loop is left and the following statement
\* runs.  The counter loop y := 0; while (y < N) { y = y + 1 } is left after
\* exactly N runs of its body with y = N (the sample's N = 10 prints 10).
C10_While ==
  /\ \A j \in 1..(Len(trace) - 1) :
       LET ev == trace[j]
           nxt == trace[j + 1]
       IN
       /\ ev.a = "enter" => IsTest(nxt, ev.path)
       /\ (ev.a = "test" /\ ev.truthy) =>
            IF BlockAt(ev.path) = <<>> THEN IsTest(nxt, ev.path)
            ELSE Starts(nxt, Append(ev.path, 1))
       /\ (ev.a = "test" /\ ev.ok /\ ~ev.truthy) => Follows(ev.path, nxt)
       /\ (ev.a = "stmt" /\ ev.ok /\ Len(ev.path) > 1) => Follows(ev.path, nxt)
  /\ \A j \in DOMAIN trace :
       trace[j].a = "test" =>
         \A c \in DOMAIN BlockAt(trace[j].path) :
           LET p == trace[j].path IN
           /\ Runs(Append(p, c)) <= TruthyTests(p)
           /\ (LoopLeft(p) \/ status = "done") => Runs(Append(p, c)) = TruthyTests(p)
  /\ \A n \in 0..(MaxN + 1) :
       IsCounter(n) =>
         /\ Tests(<<2>>) <= n + 1
         /\ status = "running" => ENABLED Next
         /\ LoopLeft(<<2>>) =>
              /\ memory["y"] = Num(n)
              /\ TruthyTests(<<2>>) = n
              /\ Runs(<<2, 1>>) = n
              /\ Tests(<<2>>) = n + 1
  /\ program.body.statements = SamplePart000 =>
       /\ Tests(<<7>>) <= 11
       /\ LoopLeft(<<7>>) => memory["y"] = Num(10) /\ Runs(<<7, 1>>) = 10
       /\ Len(out) >= 4 => out[4] = Num(10)

\* the counter loop to MaxN + 1 has been left and the statement after it
\* has printed y
C10_Witness ==
  /\ IsCounter(MaxN + 1)
  /\ status = "done"
  /\ out = <<Num(MaxN + 1)>>
  /\ Runs(<<2, 1>>) = MaxN + 1

====
